---- MODULE Spec2Model ----
(***************************************************************************)
(* Model of server/src/types.py: the enumerations HazardType and ImageType *)
(* with their string conversions, and the value classes LatLong, Date,     *)
(* ImageURL and Location with their constructors and validators.           *)
(*                                                                         *)
(* A Python str is modelled as a sequence of characters; a character is a  *)
(* one-letter TLA+ string, or one of the named non-ASCII characters        *)
(*   "LONG_S"    U+017F  (upper() is "S",  lower() is itself)              *)
(*   "DOTLESS_I" U+0131  (upper() is "I",  lower() is itself)              *)
(*   "SHARP_S"   U+00DF  (upper() is "SS", lower() is itself)              *)
(*   "SUP_TWO"   U+00B2  (isdigit() is True, int() raises ValueError)      *)
(* A call's outcome is a record: Return(v) or Raise(exception).            *)
(***************************************************************************)
EXTENDS Integers, Sequences, FiniteSets, TLC

VARIABLES
    call,     \* the last call made by the caller: [op, args]
    result,   \* its outcome: Return(value) or Raise(type, msg, arg)
    self,     \* __dict__ of the instance the last __init__ ran on, as it ended
    obj       \* the instance the caller holds (None until a constructor returns)

vars == <<call, result, self, obj>>

(***************************************************************************)
(* Outcomes and values                                                     *)
(***************************************************************************)
None == [cls |-> "None"]

NoAttrs == <<>>

Return(v) == [kind |-> "return", value |-> v]

Raise(t, m, a) == [kind |-> "raise", exc |-> [type |-> t, msg |-> m, arg |-> a]]

\* a number, and an instance of the dataclass LatLong, as argument values
Float(v) == <<"float", v>>

(***************************************************************************)
(* str.upper(), str.lower()                                                *)
(***************************************************************************)
LowerLetters ==
    <<"a","b","c","d","e","f","g","h","i","j","k","l","m",
      "n","o","p","q","r","s","t","u","v","w","x","y","z">>

UpperLetters ==
    <<"A","B","C","D","E","F","G","H","I","J","K","L","M",
      "N","O","P","Q","R","S","T","U","V","W","X","Y","Z">>

Occurs(seq, c) == \E i \in 1..Len(seq) : seq[i] = c

IndexOf(seq, c) == CHOOSE i \in 1..Len(seq) : seq[i] = c

\* upper() of one character: a string, since U+00DF maps to two characters
char_upper(c) ==
    IF Occurs(LowerLetters, c) THEN <<UpperLetters[IndexOf(LowerLetters, c)]>>
    ELSE IF c = "LONG_S" THEN <<"S">>
    ELSE IF c = "DOTLESS_I" THEN <<"I">>
    ELSE IF c = "SHARP_S" THEN <<"S", "S">>
    ELSE <<c>>

char_lower(c) ==
    IF Occurs(UpperLetters, c) THEN LowerLetters[IndexOf(UpperLetters, c)]
    ELSE c

RECURSIVE str_upper(_)
str_upper(s) ==
    IF s = <<>> THEN <<>> ELSE char_upper(Head(s)) \o str_upper(Tail(s))

str_lower(s) == [i \in 1..Len(s) |-> char_lower(s[i])]

(***************************************************************************)
(* class HazardType(Enum), class ImageType(Enum)                           *)
(***************************************************************************)
VOLCANOES == <<"V","O","L","C","A","N","O","E","S">>

EARTHQUAKES == <<"E","A","R","T","H","Q","U","A","K","E","S">>

\* member names in definition order; a member's value is its position
HazardType__members__ == <<VOLCANOES, EARTHQUAKES>>

GEO_BACKSCATTER == <<"G","E","O","_","B","A","C","K","S","C","A","T","T","E","R">>

GEO_COHERENCE == <<"G","E","O","_","C","O","H","E","R","E","N","C","E">>

GEO_INTERFEROGRAM == <<"G","E","O","_","I","N","T","E","R","F","E","R","O","G","R","A","M">>

ORTHO_BACKSCATTER == <<"O","R","T","H","O","_","B","A","C","K","S","C","A","T","T","E","R">>

ORTHO_COHERENCE == <<"O","R","T","H","O","_","C","O","H","E","R","E","N","C","E">>

ORTHO_INTERFEROGRAM ==
    <<"O","R","T","H","O","_","I","N","T","E","R","F","E","R","O","G","R","A","M">>

ImageType__members__ ==
    <<GEO_BACKSCATTER, GEO_COHERENCE, GEO_INTERFEROGRAM,
      ORTHO_BACKSCATTER, ORTHO_COHERENCE, ORTHO_INTERFEROGRAM>>

\* Enum[name]: the member of that name, as <<class, name, value>>
Member(cls, members, name) == <<cls, name, IndexOf(members, name)>>

\* member.name
NameOf(member) == member[2]

HazardType == {Member("HazardType", HazardType__members__, HazardType__members__[i]) :
                  i \in 1..Len(HazardType__members__)}

ImageType == {Member("ImageType", ImageType__members__, ImageType__members__[i]) :
                  i \in 1..Len(ImageType__members__)}

\* from_string indexing the enumeration without the membership test
HazardType_from_string_Unchecked(string) ==
    LET upper_string == str_upper(string) IN
    IF Occurs(HazardType__members__, upper_string)
    THEN Return(Member("HazardType", HazardType__members__, upper_string))
    ELSE Raise("KeyError", "{}", upper_string)

HazardType_from_string(string) ==
    LET upper_string == str_upper(string) IN
    IF Occurs(HazardType__members__, upper_string)
    THEN Return(Member("HazardType", HazardType__members__, upper_string))
    ELSE Raise("ValueError", "{} is not a valid hazard type", string)

\* to_string without lower()
HazardType_to_string_NoLower(hazard_type) == Return(NameOf(hazard_type))

HazardType_to_string(hazard_type) == Return(str_lower(NameOf(hazard_type)))

\* from_string without upper()
ImageType_from_string_CaseSensitive(string) ==
    IF Occurs(ImageType__members__, string)
    THEN Return(Member("ImageType", ImageType__members__, string))
    ELSE Raise("ValueError", "{} is not a valid image type", string)

ImageType_from_string(string) ==
    LET upper_string == str_upper(string) IN
    IF Occurs(ImageType__members__, upper_string)
    THEN Return(Member("ImageType", ImageType__members__, upper_string))
    ELSE Raise("ValueError", "{} is not a valid image type", string)

ImageType_to_string(image_type) == Return(str_lower(NameOf(image_type)))

(***************************************************************************)
(* Inputs of the enumeration calls: each member name and some non-member   *)
(* words, written in lower case, in upper case, capitalised, and with up   *)
(* to MaxFlips characters replaced by another character.                   *)
(***************************************************************************)
MaxFlips == 2

\* the characters tried in place of c
Alternatives(c) ==
    (IF Occurs(LowerLetters, c) THEN {UpperLetters[IndexOf(LowerLetters, c)]} ELSE {})
    \cup (IF c = "s" THEN {"LONG_S", "SHARP_S"} ELSE {})
    \cup (IF c = "i" THEN {"DOTLESS_I"} ELSE {})
    \cup (IF c = "_" THEN {"-"} ELSE {})

RECURSIVE Flipped(_, _)
Flipped(s, k) ==
    IF k = 0 THEN {s}
    ELSE LET less == Flipped(s, k - 1) IN
         less \cup UNION {{[t EXCEPT ![i] = d] : d \in Alternatives(s[i])} :
                              t \in less, i \in 1..Len(s)}

Capitalised(s) == IF s = <<>> THEN s ELSE <<Head(str_upper(<<Head(s)>>))>> \o Tail(s)

Spellings(word) ==
    LET base == str_lower(word) IN
    Flipped(base, MaxFlips) \cup {word, Capitalised(base)}

TSUNAMI == <<"T","S","U","N","A","M","I">>

VOLCANO == <<"V","O","L","C","A","N","O">>

GEO == <<"G","E","O","_">>

HazardStrings ==
    UNION {Spellings(w) : w \in {VOLCANOES, EARTHQUAKES, TSUNAMI, VOLCANO}} \cup {<<>>}

ImageStrings ==
    UNION {Spellings(ImageType__members__[i]) : i \in 1..Len(ImageType__members__)}
    \cup Spellings(GEO) \cup Spellings(VOLCANOES) \cup {<<>>}

(***************************************************************************)
(* Built-ins used by the value classes                                     *)
(***************************************************************************)
Digits == <<"0","1","2","3","4","5","6","7","8","9">>

\* str.isdigit(): true of the ASCII digits and of other characters with the
\* Unicode Digit property, such as U+00B2; false of the empty string
str_isdigit(s) ==
    /\ s # <<>>
    /\ \A i \in 1..Len(s) : Occurs(Digits, s[i]) \/ s[i] = "SUP_TWO"

RECURSIVE DecimalValue(_)
DecimalValue(s) ==
    IF s = <<>> THEN 0
    ELSE 10 * DecimalValue(SubSeq(s, 1, Len(s) - 1)) + (IndexOf(Digits, s[Len(s)]) - 1)

\* int(s) of a non-empty string without sign, blanks or underscores
py_int(s) ==
    IF \A i \in 1..Len(s) : Occurs(Digits, s[i])
    THEN Return(DecimalValue(s))
    ELSE Raise("ValueError", "invalid literal for int() with base 10", s)

\* float(x): a number converts, an instance of a class without __float__ does not
py_float(x) ==
    IF x[1] = "float" THEN Return(x[2])
    ELSE Raise("TypeError", "float() argument must be a string or a real number", x)

\* s.rfind(c), counted from 1, 0 when c does not occur
rfind(s, c) ==
    IF Occurs(s, c) THEN CHOOSE i \in 1..Len(s) : s[i] = c /\ \A j \in (i+1)..Len(s) : s[j] # c
    ELSE 0

\* os.path.splitext (posixpath): <<root, ext>>; leading dots of the last
\* component belong to the root
splitext(p) ==
    LET sepIndex == rfind(p, "/")
        dotIndex == rfind(p, ".")
    IN  IF dotIndex > sepIndex /\ \E k \in (sepIndex + 1)..(dotIndex - 1) : p[k] # "."
        THEN <<SubSeq(p, 1, dotIndex - 1), SubSeq(p, dotIndex, Len(p))>>
        ELSE <<p, <<>>>>

\* instance.method(args): the instance is passed as the first positional
\* argument, so the call fails unless the function takes 1 + Len(args)
BoundCallFits(params, args) == Len(params) = 1 + Len(args)

ArityError(arg) ==
    Raise("TypeError", "takes 1 positional argument but 2 were given", arg)

\* the outcome of __init__ and the __dict__ of the instance it ran on
Constructed(attrs) == [out |-> Return(None), self |-> attrs]

Failed(outcome) == [out |-> outcome, self |-> NoAttrs]

(***************************************************************************)
(* @dataclass class LatLong                                                *)
(***************************************************************************)
\* an instance passed as an argument
LatLong(lat, long) == <<"LatLong", lat, long>>

\* the generated __init__: no validation
LatLong__init__(lat, long) == Constructed(("lat" :> lat) @@ ("long" :> long))

(***************************************************************************)
(* class Date                                                              *)
(***************************************************************************)
\* def is_valid_date(possible_date: str): declared without self
Date_is_valid_date_params == <<"possible_date">>

Date_is_valid_date(possible_date) ==
    IF Len(possible_date) = 8 /\ str_isdigit(possible_date)
    THEN LET month == py_int(SubSeq(possible_date, 5, 6)) IN
         IF month.kind = "raise" THEN month
         ELSE IF 1 <= month.value /\ month.value <= 12
         THEN LET day == py_int(SubSeq(possible_date, 7, Len(possible_date))) IN
              IF day.kind = "raise" THEN day
              ELSE IF 1 <= day.value /\ day.value <= 31 THEN Return(TRUE)
              ELSE Return(FALSE)
         ELSE Return(FALSE)
    ELSE Return(FALSE)

\* __init__ calls self.is_valid_date(date)
Date__init__(date) ==
    IF ~BoundCallFits(Date_is_valid_date_params, <<date>>)
    THEN Failed(ArityError(date))
    ELSE LET valid == Date_is_valid_date(date) IN
         IF valid.kind = "raise" THEN Failed(valid)
         ELSE IF valid.value THEN Constructed("date" :> date)
         ELSE Failed(Raise("ValueError",
                           "The date {0} is not a valid date of the form YYYYMMDD", date))

(***************************************************************************)
(* class ImageURL                                                          *)
(***************************************************************************)
\* def is_valid_url(url): declared without self
ImageURL_is_valid_url_params == <<"url">>

valid_extensions ==
    << <<".","j","p","g">>, <<".","p","n","g">>, <<".","t","i","f","f">>, <<".","g","i","f">> >>

\* filename[0] is not "/": CPython keeps one object per one-character
\* string, so the identity test decides as the comparison does
ImageURL_is_valid_url(url) ==
    LET filename == splitext(url)[1]
        file_extension == splitext(url)[2]
    IN  IF filename = <<>>
        THEN Raise("IndexError", "string index out of range", url)
        ELSE IF filename[1] # "/" \/ ~Occurs(valid_extensions, file_extension)
        THEN Return(FALSE)
        ELSE Return(TRUE)

\* __init__ calls self.is_valid_url(url)
ImageURL__init__(url) ==
    IF ~BoundCallFits(ImageURL_is_valid_url_params, <<url>>)
    THEN Failed(ArityError(url))
    ELSE LET valid == ImageURL_is_valid_url(url) IN
         IF valid.kind = "raise" THEN Failed(valid)
         ELSE IF valid.value THEN Constructed("url" :> url)
         ELSE Failed(Raise("ValueError", "The url {0} is not a valid URL", url))

(***************************************************************************)
(* class Location                                                          *)
(***************************************************************************)
\* -90 < float(north) < 90 and -90 < float(south) < 90, left to right
Location_validate_latitudes(north, south) ==
    LET n == py_float(north) IN
    IF n.kind = "raise" THEN n
    ELSE IF ~(-90 < n.value /\ n.value < 90) THEN Return(FALSE)
    ELSE LET s == py_float(south) IN
         IF s.kind = "raise" THEN s
         ELSE Return(-90 < s.value /\ s.value < 90)

\* float(east) < 180 and float(west) > -180, left to right
Location_validate_longitudes(east, west) ==
    LET e == py_float(east) IN
    IF e.kind = "raise" THEN e
    ELSE IF ~(e.value < 180) THEN Return(FALSE)
    ELSE LET w == py_float(west) IN
         IF w.kind = "raise" THEN w
         ELSE Return(w.value > -180)

\* __init__ assigning center before the validation
Location__init__CenterFirst(center, north, south, east, west) ==
    LET valid_lats == Location_validate_latitudes(north, south) IN
    IF valid_lats.kind = "raise" THEN [out |-> valid_lats, self |-> "center" :> center]
    ELSE LET valid_lons == Location_validate_longitudes(east, west) IN
         IF valid_lons.kind = "raise" THEN [out |-> valid_lons, self |-> "center" :> center]
         ELSE IF valid_lats.value /\ valid_lons.value
         THEN Constructed(("center" :> center) @@
                          ("bounding_box" :> (("North" :> north) @@ ("South" :> south) @@
                                              ("East" :> east) @@ ("West" :> west))))
         ELSE [out |-> Raise("Exception", "", <<>>), self |-> "center" :> center]

Location__init__(center, north, south, east, west) ==
    LET valid_lats == Location_validate_latitudes(north, south) IN
    IF valid_lats.kind = "raise" THEN Failed(valid_lats)
    ELSE LET valid_lons == Location_validate_longitudes(east, west) IN
         IF valid_lons.kind = "raise" THEN Failed(valid_lons)
         ELSE IF valid_lats.value /\ valid_lons.value
         THEN Constructed(("center" :> center) @@
                          ("bounding_box" :> (("North" :> north) @@ ("South" :> south) @@
                                              ("East" :> east) @@ ("West" :> west))))
         ELSE Failed(Raise("Exception", "", <<>>))

(***************************************************************************)
(* Inputs of the constructors and validators                               *)
(***************************************************************************)
MaxExtra == 1

YearPart == <<"2","0","1","9">>

MonthParts ==
    { <<"0","0">>, <<"0","4">>, <<"1","2">>, <<"1","3">>, <<"1","x">>, <<"SUP_TWO","SUP_TWO">> }

DayParts ==
    { <<"0","0">>, <<"1","1">>, <<"3","1">>, <<"3","2">>, <<"3","x">>, <<"SUP_TWO","SUP_TWO">> }

Padding == [i \in 1..MaxExtra |-> "1"]

\* YYYYMMDD followed by MaxExtra more digits, and every prefix of it
DateStrings ==
    UNION {{SubSeq(YearPart \o m \o d \o Padding, 1, n) : n \in 0..(8 + MaxExtra)} :
              m \in MonthParts, d \in DayParts}

UrlDirs ==
    { <<>>, <<"/">>, <<"/","i","m","a","g","e","s","/">>, <<"i","m","a","g","e","s","/">>,
      <<"/","i",".","d","/">> }

UrlStems == { <<>>, <<"a">>, <<".">> }

UrlExtensions ==
    { <<>>, <<".","j","p","g">>, <<".","p","n","g">>, <<".","t","i","f","f">>,
      <<".","g","i","f">>, <<".","b","m","p">>, <<".","J","P","G">> }

UrlStrings == {d \o s \o e : d \in UrlDirs, s \in UrlStems, e \in UrlExtensions}

LatLongSamples == { <<0, 0>>, <<45, 90>>, <<90, 180>> }

CenterSamples == { LatLong(0, 0), LatLong(100, 200) }

NorthSamples == { Float(45), Float(90), Float(-90), LatLong(45, 0), LatLong(90, 0) }

SouthSamples == { Float(-45), Float(-90), LatLong(-45, 0) }

EastSamples == { Float(90), Float(180), Float(-500), LatLong(0, 90) }

WestSamples == { Float(-90), Float(-180), Float(500), LatLong(0, -90) }

\* values a caller assigns to the fields of an instance it holds
AssignedNumbers == { 200 }

AssignedCenters == { LatLong(100, 200) }

AssignedValues == { Float(200) }

(***************************************************************************)
(* The calls                                                               *)
(***************************************************************************)
Init ==
    /\ call = [op |-> "none", args |-> <<>>]
    /\ result = [kind |-> "none"]
    /\ self = NoAttrs
    /\ obj = None

\* The caller makes one call at a time and takes its outcome before the next.
Idle == call.op = "none"

\* The calls of the functions that touch no instance

CallHazardTypeFromString ==
    /\ Idle
    /\ \E s \in HazardStrings :
            /\ call' = [op |-> "HazardType.from_string", args |-> <<s>>]
            /\ result' = HazardType_from_string(s)
            /\ UNCHANGED <<self, obj>>

CallHazardTypeToString ==
    /\ Idle
    /\ \E m \in HazardType :
            /\ call' = [op |-> "HazardType.to_string", args |-> <<m>>]
            /\ result' = HazardType_to_string(m)
            /\ UNCHANGED <<self, obj>>

CallImageTypeFromString ==
    /\ Idle
    /\ \E s \in ImageStrings :
            /\ call' = [op |-> "ImageType.from_string", args |-> <<s>>]
            /\ result' = ImageType_from_string(s)
            /\ UNCHANGED <<self, obj>>

CallImageTypeToString ==
    /\ Idle
    /\ \E m \in ImageType :
            /\ call' = [op |-> "ImageType.to_string", args |-> <<m>>]
            /\ result' = ImageType_to_string(m)
            /\ UNCHANGED <<self, obj>>

\* the validators called on the class, without an instance
CallIsValidDate ==
    /\ Idle
    /\ \E s \in DateStrings :
            /\ call' = [op |-> "Date.is_valid_date", args |-> <<s>>]
            /\ result' = Date_is_valid_date(s)
            /\ UNCHANGED <<self, obj>>

CallIsValidUrl ==
    /\ Idle
    /\ \E s \in UrlStrings :
            /\ call' = [op |-> "ImageURL.is_valid_url", args |-> <<s>>]
            /\ result' = ImageURL_is_valid_url(s)
            /\ UNCHANGED <<self, obj>>

CallValidateLatitudes ==
    /\ Idle
    /\ \E north \in NorthSamples, south \in SouthSamples :
            /\ call' = [op |-> "Location.validate_latitudes", args |-> <<north, south>>]
            /\ result' = Location_validate_latitudes(north, south)
            /\ UNCHANGED <<self, obj>>

CallValidateLongitudes ==
    /\ Idle
    /\ \E east \in EastSamples, west \in WestSamples :
            /\ call' = [op |-> "Location.validate_longitudes", args |-> <<east, west>>]
            /\ result' = Location_validate_longitudes(east, west)
            /\ UNCHANGED <<self, obj>>

\* The constructor calls, x = Class(...): x is bound to the new instance when
\* __init__ returns and keeps what it held when __init__ raises.
Bound(cls, r) == IF r.out.kind = "return" THEN [cls |-> cls, attrs |-> r.self] ELSE obj

NewLatLong ==
    /\ Idle
    /\ \E c \in LatLongSamples :
        LET r == LatLong__init__(c[1], c[2]) IN
        /\ call' = [op |-> "LatLong", args |-> c]
        /\ result' = r.out
        /\ self' = r.self
        /\ obj' = Bound("LatLong", r)

NewDate ==
    /\ Idle
    /\ \E s \in DateStrings :
        LET r == Date__init__(s) IN
        /\ call' = [op |-> "Date", args |-> <<s>>]
        /\ result' = r.out
        /\ self' = r.self
        /\ obj' = Bound("Date", r)

NewImageURL ==
    /\ Idle
    /\ \E s \in UrlStrings :
        LET r == ImageURL__init__(s) IN
        /\ call' = [op |-> "ImageURL", args |-> <<s>>]
        /\ result' = r.out
        /\ self' = r.self
        /\ obj' = Bound("ImageURL", r)

NewLocation ==
    /\ Idle
    /\ \E center \in CenterSamples, north \in NorthSamples, south \in SouthSamples,
          east \in EastSamples, west \in WestSamples :
        LET r == Location__init__(center, north, south, east, west) IN
        /\ call' = [op |-> "Location", args |-> <<center, north, south, east, west>>]
        /\ result' = r.out
        /\ self' = r.self
        /\ obj' = Bound("Location", r)

\* instance.name = value: no class defines __setattr__ or __slots__, and the
\* dataclasses are not frozen
SetAttr ==
    /\ Idle
    /\ obj # None
    /\ \E name \in DOMAIN obj.attrs \ {"bounding_box"} :
       \E value \in (IF obj.cls = "LatLong" THEN AssignedNumbers ELSE AssignedCenters) :
          /\ obj' = [obj EXCEPT !.attrs[name] = value]
          /\ call' = [op |-> "setattr", args |-> <<name, value>>]
    /\ result' = Return(None)
    /\ UNCHANGED self

\* location.bounding_box[key] = value: bounding_box is a dict
SetItem ==
    /\ Idle
    /\ obj # None
    /\ obj.cls = "Location"
    /\ \E key \in DOMAIN obj.attrs["bounding_box"], value \in AssignedValues :
          /\ obj' = [obj EXCEPT !.attrs["bounding_box"][key] = value]
          /\ call' = [op |-> "setitem", args |-> <<key, value>>]
    /\ result' = Return(None)
    /\ UNCHANGED self

\* the caller has taken the outcome; the frame of the call is gone
Continue ==
    /\ ~Idle
    /\ call' = [op |-> "none", args |-> <<>>]
    /\ result' = [kind |-> "none"]
    /\ self' = NoAttrs
    /\ UNCHANGED obj

\* the enumerations
NextEnum ==
    \/ CallHazardTypeFromString
    \/ CallHazardTypeToString
    \/ CallImageTypeFromString
    \/ CallImageTypeToString
    \/ NewLatLong
    \/ Continue

SpecEnum == Init /\ [][NextEnum]_vars

\* the value classes
Next ==
    \/ NewLatLong
    \/ NewDate
    \/ NewImageURL
    \/ NewLocation
    \/ CallIsValidDate
    \/ CallIsValidUrl
    \/ CallValidateLatitudes
    \/ CallValidateLongitudes
    \/ SetAttr
    \/ SetItem
    \/ Continue

Spec == Init /\ [][Next]_vars

(***************************************************************************)
(* Properties                                                              *)
(***************************************************************************)
NonAscii == {"LONG_S", "DOTLESS_I", "SHARP_S", "SUP_TWO"}

IsAscii(s) == \A i \in 1..Len(s) : s[i] \notin NonAscii

HasNoUpperCase(s) == \A i \in 1..Len(s) : ~Occurs(UpperLetters, s[i])

\* the YYYYMMDD rule: 8 ASCII digits, month 01..12, day 01..31
IsYYYYMMDD(s) ==
    /\ Len(s) = 8
    /\ \A i \in 1..8 : Occurs(Digits, s[i])
    /\ DecimalValue(SubSeq(s, 5, 6)) \in 1..12
    /\ DecimalValue(SubSeq(s, 7, 8)) \in 1..31

\* the path / extension rule of an image reference
IsImagePath(s) ==
    LET root == splitext(s)[1]
        ext == splitext(s)[2]
    IN  /\ root # <<>>
        /\ root[1] = "/"
        /\ ext \in { <<".","j","p","g">>, <<".","p","n","g">>,
                     <<".","t","i","f","f">>, <<".","g","i","f">> }

IsLatLong(x) == x[1] = "LatLong"

\* C1: every 8-digit string with month in 1..12 and day in 1..31 constructs a
\* Date whose date field is that string.
C1_ValidDateConstructs ==
    (call.op = "Date" /\ IsYYYYMMDD(call.args[1])) =>
        /\ result.kind = "return"
        /\ DOMAIN self = {"date"}
        /\ self["date"] = call.args[1]

\* C2: every string that is not a valid YYYYMMDD date is rejected by the Date
\* constructor with the date validation error carrying the string, and with
\* no other kind of error.
C2_InvalidDateRaisesInvalidDate ==
    (call.op = "Date" /\ ~IsYYYYMMDD(call.args[1])) =>
        /\ result.kind = "raise"
        /\ result.exc.type = "ValueError"
        /\ result.exc.msg = "The date {0} is not a valid date of the form YYYYMMDD"
        /\ result.exc.arg = call.args[1]

C4_RoundTrip ==
    /\ call.op = "HazardType.to_string" =>
          /\ result.kind = "return"
          /\ HazardType_from_string(result.value) = Return(call.args[1])
    /\ call.op = "ImageType.to_string" =>
          /\ result.kind = "return"
          /\ ImageType_from_string(result.value) = Return(call.args[1])

\* a member whose name holds an underscore has been formatted
C4_Witness ==
    /\ call.op = "ImageType.to_string"
    /\ NameOf(call.args[1]) = ORTHO_INTERFEROGRAM
    /\ result.kind = "return"
    /\ Len(result.value) = Len(ORTHO_INTERFEROGRAM)

C6_ImagePathRule ==
    call.op = "ImageURL" =>
        IF IsImagePath(call.args[1])
        THEN /\ result.kind = "return"
             /\ DOMAIN self = {"url"}
             /\ self["url"] = call.args[1]
        ELSE /\ result.kind = "raise"
             /\ result.exc.type = "ValueError"

\* C7: Location construction from LatLong arguments succeeds exactly when
\* -90 < north.lat < 90, -90 < south.lat < 90, east.long < 180 and
\* west.long > -180.
C7_LatLongBounds ==
    (call.op = "Location" /\ \A i \in 1..5 : IsLatLong(call.args[i])) =>
        (result.kind = "return" <=>
            /\ -90 < call.args[2][2] /\ call.args[2][2] < 90
            /\ -90 < call.args[3][2] /\ call.args[3][2] < 90
            /\ call.args[4][3] < 180
            /\ call.args[5][3] > -180)

\* C8: a failed Location construction raises a specific error that names the
\* offending field and value, not a generic one.
C8_SpecificLocationError ==
    (call.op = "Location" /\ result.kind = "raise") =>
        /\ result.exc.type \notin {"Exception", "TypeError"}
        /\ result.exc.arg # <<>>

\* C9: an instance never changes once constructed, so the bounding box of a
\* Location the caller holds satisfies the latitude and longitude bounds at
\* all times.
C9_BoundingBoxStaysValid ==
    obj.cls = "Location" =>
        /\ Location_validate_latitudes(obj.attrs["bounding_box"]["North"],
                                       obj.attrs["bounding_box"]["South"]) = Return(TRUE)
        /\ Location_validate_longitudes(obj.attrs["bounding_box"]["East"],
                                        obj.attrs["bounding_box"]["West"]) = Return(TRUE)

\* C10: when the constructor of Date, ImageURL or Location raises, no field of
\* the instance has been assigned.
C10_NoFieldSetOnFailure ==
    (call.op \in {"Date", "ImageURL", "Location"} /\ result.kind = "raise") =>
        DOMAIN self = {}

\* a Location construction has failed on a bounds check
C10_Witness ==
    /\ call.op = "Location"
    /\ result.kind = "raise"
    /\ result.exc.type = "Exception"

====
